---- MODULE Spec2Model ----
(***************************************************************************)
(* A model of gtr/musicdb: the in-memory album store (album.go), the       *)
(* command log (cmdlog.go), the backend client gateway (backend.go), the   *)
(* frontend (frontend.go) and the consensus module (raft.go).              *)
(*                                                                         *)
(* Strings that the program converts (album ids) are sequences of          *)
(* one-character strings, so that strconv.Itoa / strconv.Atoi are modelled *)
(* by what they compute.  Go maps are TLA+ functions whose DOMAIN is the   *)
(* key set.  Goroutines are records in bags, one record per goroutine,     *)
(* with a pc field naming the statement the goroutine is at.               *)
(***************************************************************************)
EXTENDS Integers, Sequences, FiniteSets, Bags, TLC

VARIABLES
    \* ---- an AlbumDB exercised through its methods (album.go) ----
    db,          \* [Data : id -> Album, CurrID : Int]
    ret,         \* the last AlbumDB call: its name, arguments and results
    nEdits,      \* number of EditAlbum calls made so far (bounded)
    assigned,    \* the ids AddAlbum has handed out on db, in call order
    cmdLog,      \* CommandLog.Entries whose entries were applied to db so far
    \* ---- the replicas (raft.go, backend.go) ----
    cm,          \* node id -> its ConsensusModule and the goroutines it runs
    srv,         \* node id -> its BackendServer and what it wrote to clients
    \* ---- the frontend (frontend.go) ----
    fe           \* the FrontendServer: its connection and the last response

storeVars == <<db, ret, nEdits, assigned, cmdLog>>

nodeVars == <<cm, srv, fe>>

vars == <<db, ret, nEdits, assigned, cmdLog, cm, srv, fe>>

\* ------------------------------------------------------------------ bounds

\* AddAlbum calls allowed on top of the hardcoded albums
MaxAdds == 2
\* EditAlbum calls allowed
MaxEdits == 1
\* peers of the node whose goroutines are followed step by step
MaxPeers == 3
\* highest term a node reaches
MaxTerm == 3
\* prepareRequestVoteForPeer goroutines alive at once on a node
MaxVoteCalls == 3
\* StartElectionTimer goroutines alive at once on a node
MaxTimers == 2
\* prepareAppendEntriesForPeer goroutines alive at once on a node
MaxInFlight == 2
\* entries in a node's log
MaxLog == 2
\* peers of a node that is followed as leader
MaxFollowers == 2
\* highest term in which a node followed as leader starts an election
MaxLeaderTerm == 2
\* client requests a backend server handles
MaxRequests == 2
\* nodes of the cluster whose nodes all run
ClusterSize == 3
\* highest term in which a node of that cluster starts an election
MaxClusterTerm == 2
\* nodes of that cluster that start elections (the others only vote)
MaxCandidates == 2
\* nodes of the cluster whose nodes replicate their logs
ReplicaSize == 2
\* highest term in which a node of that cluster starts an election
MaxReplicaTerm == 3
\* prepareRequestVoteForPeer goroutines alive at once on a node of it
MaxReplicaCalls == 2
\* entries a leader of that cluster takes into its log
MaxReplicaLog == 1
\* backend endpoints given to the frontend
MaxEndpoints == 2
\* routes the frontend handles
MaxRoutes == 3
\* entries in the command log that is replayed
MaxReplay == 3
\* highest term in which a node of the cluster of SpecCommit starts an
\* election
MaxCommitTerm == 3
\* prepareRequestVoteForPeer goroutines alive at once on a node of it
MaxCommitCalls == 5
\* entries a leader of that cluster takes into its log
MaxCommitLog == 2

\* ------------------------------------------------------- strconv (Go stdlib)

Digits == <<"0", "1", "2", "3", "4", "5", "6", "7", "8", "9">>

DigitChars == {Digits[i] : i \in 1..10}

DigitVal(c) == (CHOOSE i \in 1..10 : Digits[i] = c) - 1

RECURSIVE ItoaNat(_)
ItoaNat(n) == IF n < 10 THEN <<Digits[n + 1]>>
              ELSE ItoaNat(n \div 10) \o <<Digits[(n % 10) + 1]>>

\* strconv.Itoa: decimal digits, most significant first, "-" before a
\* negative number.
Itoa(n) == IF n < 0 THEN <<"-">> \o ItoaNat(0 - n) ELSE ItoaNat(n)

RECURSIVE DigitsVal(_, _)
DigitsVal(s, acc) == IF s = <<>> THEN acc
                     ELSE DigitsVal(Tail(s), acc * 10 + DigitVal(Head(s)))

\* strconv.Atoi: an optional sign followed by one or more decimal digits;
\* anything else is a syntax error.  Result [ok, val].
Atoi(s) ==
    LET signed == s # <<>> /\ Head(s) \in {"+", "-"}
        body   == IF signed THEN Tail(s) ELSE s
        good   == body # <<>> /\ \A i \in 1..Len(body) : body[i] \in DigitChars
    IN  IF ~good THEN [ok |-> FALSE, val |-> 0]
        ELSE [ok |-> TRUE,
              val |-> IF signed /\ Head(s) = "-" THEN 0 - DigitsVal(body, 0)
                      ELSE DigitsVal(body, 0)]

\* --------------------------------------------------------------- album.go

hardcodedAlbums ==
    << <<"Disintigration", "The Cure", "https://lastfm.freetls.fastly.net/i/u/770x0/a0f446f0184f425e52fcdb32b9cf82e5.jpg", "1989">>,
       <<"Kids See Ghosts", "Kids See Ghosts", "https://lastfm.freetls.fastly.net/i/u/770x0/e9dd5c8d3294ca0a0f58cbf7ad5fd6a6.jpg", "2018">>,
       <<"Devotion", "Tirzah", "https://lastfm.freetls.fastly.net/i/u/770x0/1961645688c754bd7a26bd540b9f7a7d.jpg", "2018">>,
       <<"Untouched", "Secret Shine", "https://lastfm.freetls.fastly.net/i/u/770x0/9ff3fccfcb6cc587dca7e9bcbd551024.jpg", "1993">>,
       <<"Purple Haze", "Cam'ron", "https://lastfm.freetls.fastly.net/i/u/770x0/3025393c10b6cc84bf85cba203bdb7f6.jpg", "2004">> >>

Album(id, title, artist, url, year) ==
    [Id |-> id, Title |-> title, Artist |-> artist, URL |-> url, Year |-> year]

\* map insert / overwrite: m[k] = v
MapPut(m, k, v) == [x \in (DOMAIN m) \cup {k} |-> IF x = k THEN v ELSE m[x]]

\* delete(m, k)
MapDelete(m, k) == [x \in (DOMAIN m) \ {k} |-> m[x]]

\* AlbumDB.AddAlbum: insert under CurrID, then CurrID += 1
AddAlbum(d, title, artist, url, year) ==
    [Data   |-> MapPut(d.Data, d.CurrID,
                       Album(Itoa(d.CurrID), title, artist, url, year)),
     CurrID |-> d.CurrID + 1]

RECURSIVE AddAll(_, _)
AddAll(d, albums) ==
    IF albums = <<>> THEN d
    ELSE AddAll(AddAlbum(d, Head(albums)[1], Head(albums)[2],
                         Head(albums)[3], Head(albums)[4]),
                Tail(albums))

\* NewAlbumDB: an empty map, CurrID 0, then one AddAlbum per hardcoded album
NewAlbumDB == AddAll([Data |-> <<>>, CurrID |-> 0], hardcodedAlbums)

\* AlbumDB.RemoveAlbum that also hands the id back to the counter
RemoveAlbumDecrement(d, id) ==
    LET a == Atoi(id)
    IN  IF ~a.ok THEN [db |-> d, err |-> "BadId"]
        ELSE IF a.val \in DOMAIN d.Data
             THEN [db  |-> [Data |-> MapDelete(d.Data, a.val),
                            CurrID |-> d.CurrID - 1],
                   err |-> "nil"]
             ELSE [db |-> d, err |-> "NotFound"]

\* AlbumDB.RemoveAlbum: result [db, err]
RemoveAlbum(d, id) ==
    LET a == Atoi(id)
    IN  IF ~a.ok THEN [db |-> d, err |-> "BadId"]
        ELSE IF a.val \in DOMAIN d.Data
             THEN [db  |-> [d EXCEPT !.Data = MapDelete(d.Data, a.val)],
                   err |-> "nil"]
             ELSE [db |-> d, err |-> "NotFound"]

\* AlbumDB.EditAlbum that assigns every field, also from an empty argument
EditAlbumOverwrite(d, id, title, artist, url, year) ==
    LET a == Atoi(id)
    IN  IF ~a.ok THEN [db |-> d, err |-> "BadId"]
        ELSE IF a.val \in DOMAIN d.Data
             THEN [db  |-> [d EXCEPT !.Data = MapPut(d.Data, a.val,
                               Album(d.Data[a.val].Id, title, artist, url, year))],
                   err |-> "nil"]
             ELSE [db |-> d, err |-> "NotFound"]

\* AlbumDB.EditAlbum: result [db, err]
EditAlbum(d, id, title, artist, url, year) ==
    LET a == Atoi(id)
    IN  IF ~a.ok THEN [db |-> d, err |-> "BadId"]
        ELSE IF a.val \in DOMAIN d.Data
             THEN LET old == d.Data[a.val]
                      new == [Id     |-> old.Id,
                              Title  |-> IF title # "" THEN title ELSE old.Title,
                              Artist |-> IF artist # "" THEN artist ELSE old.Artist,
                              URL    |-> IF url # "" THEN url ELSE old.URL,
                              Year   |-> IF year # "" THEN year ELSE old.Year]
                  IN  [db  |-> [d EXCEPT !.Data = MapPut(d.Data, a.val, new)],
                       err |-> "nil"]
             ELSE [db |-> d, err |-> "NotFound"]

\* the nil *Album
NilAlbum == [nil |-> TRUE]

\* AlbumDB.GetAlbum: result [album, err]; album is nil on error
GetAlbum(d, id) ==
    LET a == Atoi(id)
    IN  IF ~a.ok THEN [album |-> NilAlbum, err |-> "BadId"]
        ELSE IF a.val \in DOMAIN d.Data
             THEN [album |-> d.Data[a.val], err |-> "nil"]
             ELSE [album |-> NilAlbum, err |-> "NotFound"]

\* the loop of GetAllAlbums from index i: for ; i < len(db.Data); i++
RECURSIVE GetAllFrom(_, _)
GetAllFrom(d, i) ==
    IF i < Cardinality(DOMAIN d.Data)
    THEN (IF i \in DOMAIN d.Data THEN <<d.Data[i]>> ELSE <<>>)
         \o GetAllFrom(d, i + 1)
    ELSE <<>>

\* AlbumDB.GetAllAlbums
GetAllAlbums(d) == GetAllFrom(d, 0)

\* FrontendServer.Conn when it is nil
NoConn == -1

\* NewFrontendServer (frontend.go): the endpoints given, no connection yet;
\* route, got and response record the last route handled and what it read
NewFrontendServer ==
    [Endpoints |-> 0..(MaxEndpoints - 1), Conn |-> NoConn, exited |-> "no",
     route |-> "", got |-> FALSE,
     response |-> [Method |-> "", Index |-> <<>>, AlbumArray |-> <<>>,
                   Status |-> FALSE],
     nRoutes |-> 0]

\* ------------------------------------------- the store driven by its methods

\* values a caller passes for an album field ("" is the empty string)
FieldVals == {"", "x"}

\* id strings a caller passes: the decimal form of small numbers, and strings
\* that are empty, not a number, negative, signed or zero-padded
IdInputs ==
    {Itoa(i) : i \in {0, 1} \cup
                     (Len(hardcodedAlbums)..(Len(hardcodedAlbums) + MaxAdds))}
    \cup {<<>>, <<"x">>, <<"-", "1">>, <<"+", "1">>, <<"0", "1">>}

\* id strings passed to EditAlbum: a hardcoded album, the first added album,
\* an id that is never assigned, and malformed or signed strings
EditIdInputs ==
    {Itoa(0), Itoa(Len(hardcodedAlbums)), Itoa(Len(hardcodedAlbums) + MaxAdds),
     <<>>, <<"x">>, <<"+", "0">>}

NoRet == [op |-> "none", id |-> <<>>, args |-> <<>>, err |-> "nil",
          albums |-> <<>>]

\* the AlbumDB under test, freshly constructed
InitDB ==
    /\ db = NewAlbumDB
    /\ ret = NoRet
    /\ nEdits = 0
    /\ assigned = <<>>
    /\ cmdLog = <<>>

\* no replica is running
InitStore ==
    /\ InitDB
    /\ cm = <<>>
    /\ srv = <<>>
    /\ fe = NewFrontendServer

\* db.AddAlbum(title, artist, url, year)
StoreAdd ==
    /\ db.CurrID < Len(hardcodedAlbums) + MaxAdds
    /\ \E title \in FieldVals \ {""} :
          db' = AddAlbum(db, title, "a", "u", "y")
    /\ ret' = [NoRet EXCEPT !.op = "AddAlbum"]
    /\ assigned' = Append(assigned, db.CurrID)
    /\ UNCHANGED <<nEdits, cmdLog, nodeVars>>

\* db.RemoveAlbum(id)
StoreRemove ==
    /\ \E id \in IdInputs :
          LET r == RemoveAlbum(db, id)
          IN  /\ db' = r.db
              /\ ret' = [NoRet EXCEPT !.op = "RemoveAlbum", !.id = id,
                                      !.err = r.err]
    /\ UNCHANGED <<nEdits, assigned, cmdLog, nodeVars>>

\* db.EditAlbum(id, title, artist, url, year)
StoreEdit ==
    /\ nEdits < MaxEdits
    /\ \E id \in EditIdInputs, title, artist, url, year \in FieldVals :
          LET r == EditAlbum(db, id, title, artist, url, year)
          IN  /\ db' = r.db
              /\ ret' = [NoRet EXCEPT !.op = "EditAlbum", !.id = id,
                                      !.args = <<title, artist, url, year>>,
                                      !.err = r.err]
    /\ nEdits' = nEdits + 1
    /\ UNCHANGED <<assigned, cmdLog, nodeVars>>

\* db.GetAllAlbums()
StoreGetAll ==
    /\ ret' = [NoRet EXCEPT !.op = "GetAllAlbums", !.albums = GetAllAlbums(db)]
    /\ UNCHANGED <<db, nEdits, assigned, cmdLog, nodeVars>>

NextStore ==
    \/ StoreAdd
    \/ StoreRemove
    \/ StoreEdit
    \/ StoreGetAll

SpecStore == InitStore /\ [][NextStore]_vars

\* ---------------------------------------------------- properties of the store

RECURSIVE AscendingKeys(_)
AscendingKeys(S) ==
    IF S = {} THEN <<>>
    ELSE LET m == CHOOSE x \in S : \A y \in S : x <= y
         IN  <<m>> \o AscendingKeys(S \ {m})

\* every album of the store, once, in ascending id order
AlbumsAscending(d) ==
    LET ks == AscendingKeys(DOMAIN d.Data)
    IN  [i \in 1..Len(ks) |-> d.Data[ks[i]]]

\* C9: whatever Add/Remove/Edit calls came before, GetAllAlbums returns
\* exactly the albums present in the store, each once, in ascending id
\* order, also those whose id is >= the number of stored albums.
C9_GetAllReturnsEveryAlbum ==
    ret.op = "GetAllAlbums" => ret.albums = AlbumsAscending(db)

\* C10: an AddAlbum step inserts the album under the old CurrID (with that
\* id as its Id string) and adds exactly 1 to CurrID; no step lowers CurrID,
\* RemoveAlbum and EditAlbum leave it unchanged; the ids handed out by the
\* adds are pairwise different and every stored id is below CurrID.
C10_AddAssignsFreshIds ==
    /\ [](/\ \A i, j \in 1..Len(assigned) :
                i # j => assigned[i] # assigned[j]
          /\ \A k \in DOMAIN db.Data : k < db.CurrID)
    /\ [][/\ db'.CurrID >= db.CurrID
          /\ ret'.op = "AddAlbum" =>
                /\ db'.CurrID = db.CurrID + 1
                /\ DOMAIN db'.Data = (DOMAIN db.Data) \cup {db.CurrID}
                /\ db'.Data[db.CurrID].Id = Itoa(db.CurrID)
                /\ Atoi(db'.Data[db.CurrID].Id) = [ok |-> TRUE, val |-> db.CurrID]
                /\ \A k \in DOMAIN db.Data : db'.Data[k] = db.Data[k]
          /\ ret'.op \in {"RemoveAlbum", "EditAlbum"} =>
                db'.CurrID = db.CurrID]_vars

\* C10 witness: the second AddAlbum has just run after the album of the first
\* one was removed.
C10_Witness ==
    /\ ret.op = "AddAlbum"
    /\ Len(assigned) = 2
    /\ assigned[1] \notin DOMAIN db.Data
    /\ assigned[2] \in DOMAIN db.Data

\* the field of an album after an edit with argument arg
Edited(old, arg) == IF arg # "" THEN arg ELSE old

\* the id string names an album of the store
Existing(d, id) == Atoi(id).ok /\ Atoi(id).val \in DOMAIN d.Data

\* C11: EditAlbum on an existing id returns no error, overwrites exactly
\* the fields whose argument is non-empty, and leaves the fields whose
\* argument is empty, the album's Id, every other album and CurrID as they
\* were; with all four arguments empty the store is unchanged.
C11_EditOverwritesNonEmptyFields ==
    [][(ret'.op = "EditAlbum" /\ Existing(db, ret'.id)) =>
          LET k == Atoi(ret'.id).val
              old == db.Data[k]
              new == db'.Data[k]
              a == ret'.args
          IN  /\ ret'.err = "nil"
              /\ db'.CurrID = db.CurrID
              /\ DOMAIN db'.Data = DOMAIN db.Data
              /\ \A j \in (DOMAIN db.Data) \ {k} : db'.Data[j] = db.Data[j]
              /\ new.Id = old.Id
              /\ new.Title = Edited(old.Title, a[1])
              /\ new.Artist = Edited(old.Artist, a[2])
              /\ new.URL = Edited(old.URL, a[3])
              /\ new.Year = Edited(old.Year, a[4])
              /\ (a = <<"", "", "", "">> => db' = db)]_vars

\* C11 witness: an edit of album 0 that names a title and a year only has
\* just run.
C11_Witness ==
    /\ ret.op = "EditAlbum"
    /\ ret.id = Itoa(0)
    /\ ret.args = <<"x", "", "", "x">>
    /\ ret.err = "nil"
    /\ db.Data[0].Title = "x"
    /\ db.Data[0].Artist = hardcodedAlbums[1][2]
    /\ db.Data[0].Year = "x"

\* ================================================================ raft.go

\* NodeState
FOLLOWER == 0
CANDIDATE == 1
LEADER == 2
DEAD == 3

\* votedFor when no vote has been cast
None == -1

\* ---- goroutines: a bag holds one record per running goroutine ----

Spawn(bag, g) == bag (+) SetToBag({g})

Finish(bag, g) == bag (-) SetToBag({g})

Move(bag, g, h) == (bag (-) SetToBag({g})) (+) SetToBag({h})

\* go node.prepareRequestVoteForPeer(peer, term): not yet at line 198
NewRequestVote(peer, term) ==
    [to |-> peer, term |-> term, pc |-> "prepare",
     lastLogIndex |-> 0, lastLogTerm |-> 0,
     replyTerm |-> 0, voteGranted |-> FALSE]

\* go node.prepareAppendEntriesForPeer(peer, term): not yet at line 305
NewAppendEntries(peer, term) ==
    [to |-> peer, term |-> term, pc |-> "prepare",
     next |-> 0, prevLogIndex |-> 0, prevLogTerm |-> 0, entries |-> <<>>,
     leaderCommit |-> 0, replyTerm |-> 0, success |-> FALSE]

\* go node.StartElectionTimer(): not yet at line 162
NewTimer == [pc |-> "start", term |-> 0]

\* go node.LeaderLoop(): about to call SendHeartbeats
NewLeaderLoop == [pc |-> "send"]

\* ---- log info ----

\* node.log[i] for a Go index i (the first entry has index 0)
LogAt(c, i) == c.log[i + 1]

\* node.log[i:]
LogFrom(c, i) == SubSeq(c.log, i + 1, Len(c.log))

\* lastLogTerm that answers 0 for an empty log
lastLogTermZero(c) == IF Len(c.log) = 0 THEN 0 ELSE LogAt(c, Len(c.log) - 1).Term

lastLogTerm(c) == IF Len(c.log) = 0 THEN -1 ELSE LogAt(c, Len(c.log) - 1).Term

lastLogIndex(c) == Len(c.log) - 1

\* UpdatePeerIndicies that leaves matchIndex at 0
UpdatePeerIndiciesMatchZero(c) ==
    [c EXCEPT !.nextIndex  = [p \in c.peerIds |-> Len(c.log)],
              !.matchIndex = [p \in c.peerIds |-> 0]]

UpdatePeerIndicies(c) ==
    [c EXCEPT !.nextIndex  = [p \in c.peerIds |-> Len(c.log)],
              !.matchIndex = [p \in c.peerIds |-> -1]]

\* ---- node state changes ----

\* BecomeLeader: state, peer indices, go LeaderLoop()
BecomeLeader(c) ==
    LET d == UpdatePeerIndicies([c EXCEPT !.state = LEADER])
    IN  [d EXCEPT !.loops = Spawn(@, NewLeaderLoop)]

\* BecomeFollower: follower defaults, the given term, electionResetEvent =
\* time.Now(), go StartElectionTimer()
BecomeFollower(c, term) ==
    [c EXCEPT !.state = FOLLOWER,
              !.votedFor = None,
              !.currentTerm = term,
              !.elapsed = 0,
              !.timers = Spawn(@, NewTimer)]

\* hasQuorum: votes*2 > len(node.peerIds)+1
hasQuorum(c, votes) == votes * 2 > Cardinality(c.peerIds) + 1

\* the body of StartElectionProcess between Lock and the deferred Unlock
StartElectionProcess(c) ==
    LET term == c.currentTerm + 1
        RECURSIVE Dispatch(_, _)
        Dispatch(bag, ps) ==
            IF ps = {} THEN bag
            ELSE LET p == CHOOSE x \in ps : TRUE
                 IN  Dispatch(Spawn(bag, NewRequestVote(p, term)), ps \ {p})
    IN  [c EXCEPT !.state = CANDIDATE,
                  !.votedFor = c.id,
                  !.votes = 1,
                  !.currentTerm = term,
                  !.elapsed = 0,
                  !.rv = Dispatch(@, c.peerIds),
                  !.timers = Spawn(@, NewTimer)]

\* ---- election: prepareRequestVoteForPeer ----

\* lines 198-201: lastLogIndex and lastLogTerm are read under the lock
RequestVotePrepare(c, g) ==
    [c EXCEPT !.rv = Move(@, g, [g EXCEPT !.pc = "call",
                                          !.lastLogIndex = lastLogIndex(c),
                                          !.lastLogTerm = lastLogTerm(c)])]

\* RequestVoteArgs built at lines 204-209
RequestVoteArgs(c, g) ==
    [term |-> g.term, candidateID |-> c.id,
     lastLogIndex |-> g.lastLogIndex, lastLogTerm |-> g.lastLogTerm]

\* DoRPC returned nil: the reply is held until the lock is taken at line 215
RequestVoteReturned(c, g, reply) ==
    [c EXCEPT !.rv = Move(@, g, [g EXCEPT !.pc = "reply",
                                          !.replyTerm = reply.term,
                                          !.voteGranted = reply.voteGranted])]

\* DoRPC returned an error (client nil, or the call failed): the goroutine
\* ends without touching the node
RequestVoteFailed(c, g) == [c EXCEPT !.rv = Finish(@, g)]

\* the tally of lines 232-238
CountVote(c, g) ==
    IF g.replyTerm = g.term /\ g.voteGranted
    THEN LET d == [c EXCEPT !.votes = @ + 1]
         IN  IF d.votes * 2 > Cardinality(DOMAIN d.peers)
             THEN BecomeLeader(d)
             ELSE d
    ELSE c

\* lines 215-239: the reply handled under the lock
RequestVoteReply(c, g) ==
    LET c1 == [c EXCEPT !.rv = Finish(@, g)]
        c2 == IF g.replyTerm > g.term THEN BecomeFollower(c1, g.replyTerm)
              ELSE c1
    IN  IF c2.state # CANDIDATE THEN c2 ELSE CountVote(c2, g)

\* ---- election timer: StartElectionTimer ----

\* lines 162-164: the timer notes the term it starts in
TimerStart(c, t) ==
    [c EXCEPT !.timers = Move(@, t, [pc |-> "wait", term |-> c.currentTerm])]

\* lines 171-190, first tick: Lock, defer Unlock; return when the term has
\* changed; on expiry call StartElectionProcess, whose Lock (line 247) waits
\* for the lock this goroutine holds; otherwise go round the loop with the
\* lock still held (the deferred Unlock runs only when the function returns)
TimerTick(c, t, expired) ==
    IF c.currentTerm # t.term
    THEN [c EXCEPT !.timers = Finish(@, t)]
    ELSE IF expired
         THEN [c EXCEPT !.mu = "timer",
                        !.timers = Move(@, t, [t EXCEPT !.pc = "StartElectionProcess"])]
         ELSE [c EXCEPT !.mu = "timer",
                        !.timers = Move(@, t, [t EXCEPT !.pc = "loop"])]

\* line 172, second tick: Lock on the mutex the goroutine already holds
TimerTickAgain(c, t) ==
    [c EXCEPT !.timers = Move(@, t, [t EXCEPT !.pc = "Lock"])]

\* ---- leader: LeaderLoop, SendHeartbeats ----

\* SendHeartbeats: read currentTerm under the lock, then one
\* prepareAppendEntriesForPeer goroutine per peer; LeaderLoop then waits
\* for its ticker
SendHeartbeats(c, l) ==
    LET term == c.currentTerm
        RECURSIVE Dispatch(_, _)
        Dispatch(bag, ps) ==
            IF ps = {} THEN bag
            ELSE LET p == CHOOSE x \in ps : TRUE
                 IN  Dispatch(Spawn(bag, NewAppendEntries(p, term)), ps \ {p})
    IN  [c EXCEPT !.ae = Dispatch(@, c.peerIds),
                  !.loops = Move(@, l, [l EXCEPT !.pc = "tick"])]

\* LeaderLoop lines 295-299: after the tick, return unless still leader
CheckIfStillLeader(c, l) ==
    IF c.state = LEADER
    THEN [c EXCEPT !.loops = Move(@, l, [l EXCEPT !.pc = "send"])]
    ELSE [c EXCEPT !.loops = Finish(@, l)]

\* ---- leader: prepareAppendEntriesForPeer ----

\* prepareAppendEntriesForPeer that calls the peer without the Unlock of
\* line 324
AppendEntriesPrepareHoldingLock(c, g) ==
    LET next == c.nextIndex[g.to]
        prev == next - 1
    IN  IF prev >= Len(c.log) \/ next < 0 \/ next > Len(c.log)
        THEN [c EXCEPT !.exited = "panic", !.ae = Finish(@, g)]
        ELSE [c EXCEPT !.mu = "ae",
                       !.ae = Move(@, g,
                 [g EXCEPT !.pc = "call",
                           !.next = next,
                           !.prevLogIndex = prev,
                           !.prevLogTerm = IF prev >= 0 THEN LogAt(c, prev).Term
                                           ELSE -1,
                           !.entries = LogFrom(c, next),
                           !.leaderCommit = c.commitIndex])]

\* lines 305-324: the request is built under the lock; an index outside the
\* log panics (log[prev], log[next:])
AppendEntriesPrepare(c, g) ==
    LET next == c.nextIndex[g.to]
        prev == next - 1
    IN  IF prev >= Len(c.log) \/ next < 0 \/ next > Len(c.log)
        THEN [c EXCEPT !.exited = "panic", !.ae = Finish(@, g)]
        ELSE [c EXCEPT !.ae = Move(@, g,
                 [g EXCEPT !.pc = "call",
                           !.next = next,
                           !.prevLogIndex = prev,
                           !.prevLogTerm = IF prev >= 0 THEN LogAt(c, prev).Term
                                           ELSE -1,
                           !.entries = LogFrom(c, next),
                           !.leaderCommit = c.commitIndex])]

\* AppendEntriesArgs built at lines 315-322
AppendEntriesArgs(c, g) ==
    [term |-> g.term, leaderId |-> c.id, prevLogIndex |-> g.prevLogIndex,
     prevLogTerm |-> g.prevLogTerm, entries |-> g.entries,
     leaderCommit |-> g.leaderCommit]

AppendEntriesReturned(c, g, reply) ==
    [c EXCEPT !.ae = Move(@, g, [g EXCEPT !.pc = "reply",
                                          !.replyTerm = reply.term,
                                          !.success = reply.success])]

\* lines 329-331: a failed call ends the process with os.Exit(1)
AppendEntriesFailed(c, g) == [c EXCEPT !.exited = "exit", !.ae = Finish(@, g)]

\* the commit scan of updateEntries that takes the quorum of index k as a
\* quorum for the whole log
RECURSIVE CommitScanToEnd(_, _)
CommitScanToEnd(c, ci) ==
    IF ci < Len(c.log)
    THEN LET k == ci + 1
         IN  IF k >= Len(c.log)
             THEN [c EXCEPT !.exited = "panic"]
             ELSE IF LogAt(c, k).Term = c.currentTerm
                  THEN LET count == 1 + Cardinality({p \in c.peerIds :
                                                      c.matchIndex[p] >= k})
                       IN  CommitScanToEnd(IF hasQuorum(c, count)
                                           THEN [c EXCEPT !.commitIndex = Len(c.log)]
                                           ELSE c, k)
                  ELSE CommitScanToEnd(c, k)
    ELSE c

\* the commit scan of updateEntries, lines 378-395, with the local variable
\* commitIndex = ci at the loop test; reading log[len(log)] panics
RECURSIVE CommitScan(_, _)
CommitScan(c, ci) ==
    IF ci < Len(c.log)
    THEN LET k == ci + 1
         IN  IF k >= Len(c.log)
             THEN [c EXCEPT !.exited = "panic"]
             ELSE IF LogAt(c, k).Term = c.currentTerm
                  THEN LET count == 1 + Cardinality({p \in c.peerIds :
                                                      c.matchIndex[p] >= k})
                       IN  CommitScan(IF hasQuorum(c, count)
                                      THEN [c EXCEPT !.commitIndex = k]
                                      ELSE c, k)
                  ELSE CommitScan(c, k)
    ELSE c

\* updateEntries that takes nextIndex itself for matchIndex
updateEntriesMatchNext(c, peer, next, entries) ==
    LET c1 == [c EXCEPT !.nextIndex[peer] = next + Len(entries)]
        c2 == [c1 EXCEPT !.matchIndex[peer] = c1.nextIndex[peer]]
    IN  CommitScan(c2, c2.commitIndex + 1)

\* updateEntries(peer, next, entries)
updateEntries(c, peer, next, entries) ==
    LET c1 == [c EXCEPT !.nextIndex[peer] = next + Len(entries)]
        c2 == [c1 EXCEPT !.matchIndex[peer] = c1.nextIndex[peer] - 1]
    IN  CommitScan(c2, c2.commitIndex + 1)

\* lines 333-352: the reply handled under the lock
AppendEntriesReply(c, g) ==
    LET c1 == [c EXCEPT !.ae = Finish(@, g)]
    IN  IF g.replyTerm > g.term
        THEN BecomeFollower(c1, g.replyTerm)
        ELSE IF c1.state = LEADER /\ g.term = g.replyTerm
             THEN IF ~g.success
                  THEN [c1 EXCEPT !.nextIndex[g.to] = g.next - 1]
                  ELSE updateEntries(c1, g.to, g.next, g.entries)
             ELSE c1

\* ---- peers ----

\* ConnectToPeer with a successful dial: SetPeer(peer, client) when the
\* entry is missing or nil
ConnectToPeer(c, peer) ==
    IF peer \in DOMAIN c.peers /\ c.peers[peer] # "nil"
    THEN c
    ELSE [c EXCEPT !.peers = MapPut(@, peer, "client")]

\* DisconnectFromPeer: Close, then SetPeer(peer, nil); the map keeps the key
DisconnectFromPeer(c, peer) ==
    IF peer \in DOMAIN c.peers /\ c.peers[peer] # "nil"
    THEN [c EXCEPT !.peers = MapPut(@, peer, "nil")]
    ELSE c

\* GetPeer(peer) != nil
HasClient(c, peer) == peer \in DOMAIN c.peers /\ c.peers[peer] # "nil"

\* ---- construction ----

\* A ConsensusModule as its constructor leaves it (the constructor is not
\* among the sources; the values are those of the design document):
\* follower in term 0, no vote, empty log, nothing committed or applied, no
\* peer connected, no goroutine running.
NewConsensusModule(id, peerIds) ==
    [id |-> id, currentTerm |-> 0, votedFor |-> None, log |-> <<>>,
     state |-> FOLLOWER, commitIndex |-> -1, lastApplied |-> -1, votes |-> 0,
     nextIndex |-> [p \in peerIds |-> 0], matchIndex |-> [p \in peerIds |-> 0],
     leader |-> "", peerIds |-> peerIds, peers |-> <<>>,
     mu |-> "free", elapsed |-> 0,
     rv |-> EmptyBag, ae |-> EmptyBag, timers |-> EmptyBag, loops |-> EmptyBag,
     exited |-> "no"]

\* the process of node n is running and its mutex can be taken
Running(n) == cm[n].exited = "no"

CanLock(n) == Running(n) /\ cm[n].mu = "free"

\* ---- steps of one node ----

\* a call of node.StartElectionProcess() by a goroutine that does not hold
\* the lock
CallStartElectionProcess(n) ==
    /\ CanLock(n)
    /\ cm' = [cm EXCEPT ![n] = StartElectionProcess(cm[n])]
    /\ UNCHANGED <<storeVars, srv, fe>>

\* go node.StartElectionTimer() at start-up
CallStartElectionTimer(n) ==
    /\ Running(n)
    /\ cm' = [cm EXCEPT ![n].timers = Spawn(@, NewTimer)]
    /\ UNCHANGED <<storeVars, srv, fe>>

\* time goes by: time.Since(electionResetEvent) may now reach a timeout
TimePasses(n) ==
    /\ Running(n)
    /\ cm[n].elapsed = 0
    /\ cm' = [cm EXCEPT ![n].elapsed = 1]
    /\ UNCHANGED <<storeVars, srv, fe>>

StepTimerStart(n) ==
    /\ CanLock(n)
    /\ \E t \in BagToSet(cm[n].timers) :
          /\ t.pc = "start"
          /\ cm' = [cm EXCEPT ![n] = TimerStart(cm[n], t)]
    /\ UNCHANGED <<storeVars, srv, fe>>

StepTimerTick(n) ==
    /\ CanLock(n)
    /\ \E t \in BagToSet(cm[n].timers), expired \in BOOLEAN :
          /\ t.pc = "wait"
          /\ expired => cm[n].elapsed = 1
          /\ cm' = [cm EXCEPT ![n] = TimerTick(cm[n], t, expired)]
    /\ UNCHANGED <<storeVars, srv, fe>>

StepTimerTickAgain(n) ==
    /\ Running(n)
    /\ \E t \in BagToSet(cm[n].timers) :
          /\ t.pc = "loop"
          /\ cm' = [cm EXCEPT ![n] = TimerTickAgain(cm[n], t)]
    /\ UNCHANGED <<storeVars, srv, fe>>

StepRequestVotePrepare(n) ==
    /\ CanLock(n)
    /\ \E g \in BagToSet(cm[n].rv) :
          /\ g.pc = "prepare"
          /\ cm' = [cm EXCEPT ![n] = RequestVotePrepare(cm[n], g)]
    /\ UNCHANGED <<storeVars, srv, fe>>

StepRequestVoteFailed(n) ==
    /\ CanLock(n)
    /\ \E g \in BagToSet(cm[n].rv) :
          /\ g.pc = "call"
          /\ cm' = [cm EXCEPT ![n] = RequestVoteFailed(cm[n], g)]
    /\ UNCHANGED <<storeVars, srv, fe>>

StepRequestVoteReply(n) ==
    /\ CanLock(n)
    /\ \E g \in BagToSet(cm[n].rv) :
          /\ g.pc = "reply"
          /\ cm' = [cm EXCEPT ![n] = RequestVoteReply(cm[n], g)]
    /\ UNCHANGED <<storeVars, srv, fe>>

StepSendHeartbeats(n) ==
    /\ CanLock(n)
    /\ \E l \in BagToSet(cm[n].loops) :
          /\ l.pc = "send"
          /\ cm' = [cm EXCEPT ![n] = SendHeartbeats(cm[n], l)]
    /\ UNCHANGED <<storeVars, srv, fe>>

StepCheckIfStillLeader(n) ==
    /\ CanLock(n)
    /\ \E l \in BagToSet(cm[n].loops) :
          /\ l.pc = "tick"
          /\ cm' = [cm EXCEPT ![n] = CheckIfStillLeader(cm[n], l)]
    /\ UNCHANGED <<storeVars, srv, fe>>

StepAppendEntriesPrepare(n) ==
    /\ CanLock(n)
    /\ \E g \in BagToSet(cm[n].ae) :
          /\ g.pc = "prepare"
          /\ cm' = [cm EXCEPT ![n] = AppendEntriesPrepare(cm[n], g)]
    /\ UNCHANGED <<storeVars, srv, fe>>

StepAppendEntriesFailed(n) ==
    /\ CanLock(n)
    /\ \E g \in BagToSet(cm[n].ae) :
          /\ g.pc = "call"
          /\ cm' = [cm EXCEPT ![n] = AppendEntriesFailed(cm[n], g)]
    /\ UNCHANGED <<storeVars, srv, fe>>

StepAppendEntriesReply(n) ==
    /\ CanLock(n)
    /\ \E g \in BagToSet(cm[n].ae) :
          /\ g.pc = "reply"
          /\ cm' = [cm EXCEPT ![n] = AppendEntriesReply(cm[n], g)]
    /\ UNCHANGED <<storeVars, srv, fe>>

StepConnectToPeer(n) ==
    /\ CanLock(n)
    /\ \E p \in cm[n].peerIds :
          /\ ~HasClient(cm[n], p)
          /\ cm' = [cm EXCEPT ![n] = ConnectToPeer(cm[n], p)]
    /\ UNCHANGED <<storeVars, srv, fe>>

StepDisconnectFromPeer(n) ==
    /\ CanLock(n)
    /\ \E p \in cm[n].peerIds :
          /\ HasClient(cm[n], p)
          /\ cm' = [cm EXCEPT ![n] = DisconnectFromPeer(cm[n], p)]
    /\ UNCHANGED <<storeVars, srv, fe>>

\* ---- one node and its peers: the peers are known by their replies ----

\* What a peer may answer to the RequestVote of goroutine g: the vote, given
\* or refused, in the term of the request, or a refusal in a later term.
VoteReplies(g) ==
    {[term |-> g.term, voteGranted |-> b] : b \in BOOLEAN}
    \cup {[term |-> t, voteGranted |-> FALSE] :
             t \in {x \in {g.term + 1} : x <= MaxTerm}}

\* DoRPC(peer, "RequestVote", ...) returns nil: the peer has a client and
\* has answered
PeerAnswersRequestVote(n) ==
    /\ CanLock(n)
    /\ \E g \in BagToSet(cm[n].rv) :
          /\ g.pc = "call"
          /\ HasClient(cm[n], g.to)
          /\ \E reply \in VoteReplies(g) :
                cm' = [cm EXCEPT ![n] = RequestVoteReturned(cm[n], g, reply)]
    /\ UNCHANGED <<storeVars, srv, fe>>

\* an election is started on node n while terms and goroutines are within
\* the bounds
Elect(n) ==
    /\ cm[n].currentTerm < MaxTerm
    /\ BagCardinality(cm[n].rv) + Cardinality(cm[n].peerIds) <= MaxVoteCalls
    /\ CallStartElectionProcess(n)

\* node 0 of a cluster of 2 to MaxPeers + 1 nodes, no peer connected yet
InitNode ==
    /\ InitDB
    /\ \E k \in 1..MaxPeers : cm = [n \in {0} |-> NewConsensusModule(0, 1..k)]
    /\ srv = <<>>
    /\ fe = NewFrontendServer

NextElection ==
    \/ Elect(0)
    \/ StepConnectToPeer(0)
    \/ StepDisconnectFromPeer(0)
    \/ StepRequestVotePrepare(0)
    \/ PeerAnswersRequestVote(0)
    \/ StepRequestVoteFailed(0)
    \/ StepRequestVoteReply(0)

\* elections on one node: timers and leader loops are started but not
\* followed
SpecElection == InitNode /\ [][NextElection]_vars

\* ------------------------------------------------ properties of elections

\* C2: term monotonicity: no step of a replica lowers its currentTerm; in
\* particular handling a RequestVote or AppendEntries reply, also one that
\* answers a request sent in an earlier term, leaves currentTerm at least
\* as high as it was just before.
C2_TermNeverDecreases ==
    [][\A n \in DOMAIN cm : cm'[n].currentTerm >= cm[n].currentTerm]_vars

\* C4: a replica becomes LEADER only in a step after which the votes it
\* holds are a strict majority of the cluster, 2 * votes > peers + 1,
\* whatever the cluster size and whatever the peers map holds.
C4_LeaderOnlyWithMajority ==
    [][\A n \in DOMAIN cm :
          cm[n].state # LEADER /\ cm'[n].state = LEADER
             => 2 * cm'[n].votes > Cardinality(cm'[n].peerIds) + 1]_vars

\* C16: a replica that handles a RequestVote reply whose term is greater
\* than its currentTerm ends that step as FOLLOWER with currentTerm equal
\* to the reply's term, votedFor = -1, its election timer reset and a new
\* timer goroutine started.
C16_HigherTermReplyMakesFollower ==
    [][\A n \in DOMAIN cm :
          \A g \in BagToSet(cm[n].rv) :
             (/\ g.pc = "reply"
              /\ g.replyTerm > cm[n].currentTerm
              /\ cm'[n] = RequestVoteReply(cm[n], g))
                => /\ cm'[n].state = FOLLOWER
                   /\ cm'[n].currentTerm = g.replyTerm
                   /\ cm'[n].votedFor = None
                   /\ cm'[n].elapsed = 0
                   /\ BagCardinality(cm'[n].timers) =
                         BagCardinality(cm[n].timers) + 1]_vars

\* C20: handling a RequestVote reply increments votes, or makes the node
\* LEADER, only if the node is CANDIDATE and the term saved when the
\* request was sent equals its currentTerm; a granted reply to a request of
\* an earlier election (saved term < currentTerm) does neither.
C20_StaleVoteRepliesIgnored ==
    [][\A n \in DOMAIN cm :
          \A g \in BagToSet(cm[n].rv) :
             (/\ g.pc = "reply"
              /\ cm'[n] = RequestVoteReply(cm[n], g)
              /\ \/ cm'[n].votes > cm[n].votes
                 \/ cm[n].state # LEADER /\ cm'[n].state = LEADER)
                => /\ cm[n].state = CANDIDATE
                   /\ g.term = cm[n].currentTerm]_vars

\* C29: within one term the vote of a replica is stable: a step that resets
\* votedFor to none (-1) strictly increases currentTerm; and handling a
\* RequestVote reply whose term equals the replica's currentTerm, while
\* exceeding the term saved when the request was sent, neither clears
\* votedFor nor changes the replica's role.
C29_VoteStableWithinTerm ==
    [][\A n \in DOMAIN cm :
          /\ (cm[n].votedFor # None /\ cm'[n].votedFor = None)
                => cm'[n].currentTerm > cm[n].currentTerm
          /\ \A g \in BagToSet(cm[n].rv) :
                (/\ g.pc = "reply"
                 /\ g.replyTerm = cm[n].currentTerm
                 /\ g.replyTerm > g.term
                 /\ cm'[n] = RequestVoteReply(cm[n], g))
                   => /\ cm'[n].votedFor = cm[n].votedFor
                      /\ cm'[n].state = cm[n].state]_vars

\* ---- one node with its election timers running ----

\* go node.StartElectionTimer() when the node is brought up, while timers
\* are within the bound
StartTimer(n) ==
    /\ BagCardinality(cm[n].timers) < MaxTimers
    /\ CallStartElectionTimer(n)

\* an election started from outside the timer, while the timer it starts is
\* within the bound
ElectWithTimer(n) ==
    /\ BagCardinality(cm[n].timers) < MaxTimers
    /\ Elect(n)

\* a reply is handled while the timer that BecomeFollower may start is
\* within the bound
ReplyWithTimer(n) ==
    /\ BagCardinality(cm[n].timers) < MaxTimers
    /\ StepRequestVoteReply(n)

NextTimer ==
    \/ StartTimer(0)
    \/ TimePasses(0)
    \/ StepTimerStart(0)
    \/ StepTimerTick(0)
    \/ StepTimerTickAgain(0)
    \/ ElectWithTimer(0)
    \/ StepConnectToPeer(0)
    \/ StepRequestVotePrepare(0)
    \/ PeerAnswersRequestVote(0)
    \/ StepRequestVoteFailed(0)
    \/ ReplyWithTimer(0)

\* elections and election timers on one node
SpecTimer == InitNode /\ [][NextTimer]_vars

\* C3: a follower whose election timeout expires in an unchanged term gets
\* to run StartElectionProcess: the election-timer goroutine finishes every
\* tick and releases the lock, so it is never waiting for the lock that it
\* holds itself (neither in StartElectionProcess nor at its next tick).
C3_TimerNeverWaitsForItsOwnLock ==
    \A n \in DOMAIN cm : \A t \in BagToSet(cm[n].timers) :
        ~(cm[n].mu = "timer" /\ t.pc \in {"StartElectionProcess", "Lock"})

Submit(c, command) ==
    [c EXCEPT !.log = Append(@, [Command |-> command, Term |-> c.currentTerm])]

\* commands that clients submit
Commands ==
    {[Method |-> "AddAlbum", Arguments |-> <<"x", "a", "u", "y">>]}

StepSubmit(n) ==
    /\ CanLock(n)
    /\ cm[n].state = LEADER
    /\ Len(cm[n].log) < MaxLog
    /\ \E command \in Commands :
          cm' = [cm EXCEPT ![n] = Submit(cm[n], command)]
    /\ UNCHANGED <<storeVars, srv, fe>>

\* What a peer may answer to the AppendEntries of goroutine g: success or
\* failure in the term of the request, or failure in a later term.
AppendReplies(g) ==
    {[term |-> g.term, success |-> b] : b \in BOOLEAN}
    \cup {[term |-> t, success |-> FALSE] :
             t \in {x \in {g.term + 1} : x <= MaxTerm}}

\* DoRPC(peer, "AppendEntries", ...) returns nil: the peer has a client and
\* has answered
PeerAnswersAppendEntries(n) ==
    /\ CanLock(n)
    /\ \E g \in BagToSet(cm[n].ae) :
          /\ g.pc = "call"
          /\ HasClient(cm[n], g.to)
          /\ \E reply \in AppendReplies(g) :
                cm' = [cm EXCEPT ![n] = AppendEntriesReturned(cm[n], g, reply)]
    /\ UNCHANGED <<storeVars, srv, fe>>

\* DoRPC returns nil and the goroutine goes on to handle the reply, in one
\* step: between the two the goroutine touches nothing but its own
\* variables, so no other goroutine can tell the steps apart
RequestVoteAnswered(n) ==
    /\ CanLock(n)
    /\ \E g \in BagToSet(cm[n].rv) :
          /\ g.pc = "call"
          /\ HasClient(cm[n], g.to)
          /\ \E reply \in VoteReplies(g) :
                LET h == [g EXCEPT !.pc = "reply",
                                   !.replyTerm = reply.term,
                                   !.voteGranted = reply.voteGranted]
                IN  cm' = [cm EXCEPT ![n] = RequestVoteReply(
                              RequestVoteReturned(cm[n], g, reply), h)]
    /\ UNCHANGED <<storeVars, srv, fe>>

AppendEntriesAnswered(n) ==
    /\ CanLock(n)
    /\ \E g \in BagToSet(cm[n].ae) :
          /\ g.pc = "call"
          /\ HasClient(cm[n], g.to)
          /\ \E reply \in AppendReplies(g) :
                LET h == [g EXCEPT !.pc = "reply",
                                   !.replyTerm = reply.term,
                                   !.success = reply.success]
                IN  cm' = [cm EXCEPT ![n] = AppendEntriesReply(
                              AppendEntriesReturned(cm[n], g, reply), h)]
    /\ UNCHANGED <<storeVars, srv, fe>>

\* a round of heartbeats is sent while goroutines are within the bound
Heartbeat(n) ==
    /\ BagCardinality(cm[n].ae) + Cardinality(cm[n].peerIds) <= MaxInFlight
    /\ StepSendHeartbeats(n)

\* every peer of c connected, by ConnectToPeer
RECURSIVE ConnectAll(_, _)
ConnectAll(c, ps) ==
    IF ps = {} THEN c
    ELSE LET p == CHOOSE x \in ps : TRUE
         IN  ConnectAll(ConnectToPeer(c, p), ps \ {p})

\* node 0 of a cluster of 2 to MaxFollowers + 1 nodes, its peers connected
InitLeader ==
    /\ InitDB
    /\ \E k \in 1..MaxFollowers :
          cm = [n \in {0} |-> ConnectAll(NewConsensusModule(0, 1..k), 1..k)]
    /\ srv = <<>>
    /\ fe = NewFrontendServer

\* an election on a node followed as leader, while its term is within the
\* bound
LeaderElect(n) ==
    /\ cm[n].currentTerm < MaxLeaderTerm
    /\ Elect(n)

NextLeader ==
    \/ LeaderElect(0)
    \/ StepRequestVotePrepare(0)
    \/ RequestVoteAnswered(0)
    \/ StepRequestVoteFailed(0)
    \/ Heartbeat(0)
    \/ StepCheckIfStillLeader(0)
    \/ StepSubmit(0)
    \/ StepAppendEntriesPrepare(0)
    \/ AppendEntriesAnswered(0)
    \/ StepAppendEntriesFailed(0)

\* one node through elections and leadership; its timers are started but
\* not followed
SpecLeader == InitLeader /\ [][NextLeader]_vars

\* ----------------------------------------------- properties of the leader

\* the commitment rule: the largest index N above the old commitIndex, up to
\* the last log index, whose entry is of the current term and which a strict
\* majority of the cluster (the leader counted) has matched; the old
\* commitIndex when there is none
CommitTarget(c, old) ==
    LET S == {N \in (old + 1)..lastLogIndex(c) :
                 /\ LogAt(c, N).Term = c.currentTerm
                 /\ 2 * (1 + Cardinality({p \in c.peerIds : c.matchIndex[p] >= N}))
                       > Cardinality(c.peerIds) + 1}
    IN  IF S = {} THEN old ELSE CHOOSE N \in S : \A M \in S : M <= N

\* C5: when the leader has handled a successful AppendEntries reply
\* (updateEntries has set nextIndex and matchIndex of the peer), its
\* commitIndex is the one the commitment rule gives, every index from the
\* old commitIndex + 1 up to the last log index being taken into account.
C5_CommitRule ==
    [][\A n \in DOMAIN cm : \A g \in BagToSet(cm[n].ae) :
          (/\ g.pc = "call"
           /\ cm[n].state = LEADER /\ cm'[n].state = LEADER
           /\ cm'[n].exited # "exit"
           /\ cm'[n].ae = Finish(cm[n].ae, g)
           /\ cm'[n].nextIndex[g.to] = g.next + Len(g.entries)
           /\ cm'[n].matchIndex[g.to] = g.next + Len(g.entries) - 1)
          => cm'[n].commitIndex = CommitTarget(cm'[n], cm[n].commitIndex)]_vars

C15_FailedAppendEntriesIsTransient ==
    [][\A n \in DOMAIN cm :
          \A g \in BagToSet(cm[n].ae) :
             (/\ cm[n].exited = "no"
              /\ g.pc = "call"
              /\ cm'[n] = AppendEntriesFailed(cm[n], g))
                => /\ cm'[n].exited = "no"
                   /\ cm'[n].state = cm[n].state
                   /\ cm'[n].currentTerm = cm[n].currentTerm
                   /\ cm'[n].log = cm[n].log
                   /\ cm'[n].nextIndex = cm[n].nextIndex
                   /\ cm'[n].matchIndex = cm[n].matchIndex
                   /\ cm'[n].loops = cm[n].loops]_vars

\* C21: the step that handles an AppendEntries reply changes nextIndex,
\* matchIndex or commitIndex only if the replica is LEADER and the term
\* saved when the request was sent equals its currentTerm; the reply to a
\* request of an earlier leadership term changes none of them, also when
\* the replica is leader again in a later term.
C21_StaleAppendRepliesIgnored ==
    [][\A n \in DOMAIN cm :
          \A g \in BagToSet(cm[n].ae) :
             (/\ g.pc \in {"call", "reply"}
              /\ cm'[n].ae = Finish(cm[n].ae, g)
              /\ \/ cm'[n].nextIndex # cm[n].nextIndex
                 \/ cm'[n].matchIndex # cm[n].matchIndex
                 \/ cm'[n].commitIndex # cm[n].commitIndex)
                => /\ cm[n].state = LEADER
                   /\ g.term = cm[n].currentTerm]_vars

\* C22: StartElectionProcess is one step under the lock after which the
\* replica is CANDIDATE, currentTerm is one more than before, votedFor is
\* its own id, votes is 1 and the election timer is reset, with exactly one
\* RequestVote goroutine started for each peer in the new term; the request
\* each of them builds carries that term, the last log index and the last
\* log term of the replica (-1 for an empty log).
C22_ElectionStart ==
    [][\A n \in DOMAIN cm :
          /\ BagCardinality(cm'[n].rv) > BagCardinality(cm[n].rv)
                => /\ cm'[n].state = CANDIDATE
                   /\ cm'[n].currentTerm = cm[n].currentTerm + 1
                   /\ cm'[n].votedFor = cm[n].id
                   /\ cm'[n].votes = 1
                   /\ cm'[n].elapsed = 0
                   /\ cm'[n].log = cm[n].log
                   /\ BagCardinality(cm'[n].rv) =
                         BagCardinality(cm[n].rv) + Cardinality(cm[n].peerIds)
                   /\ \A p \in cm[n].peerIds :
                         LET g == NewRequestVote(p, cm'[n].currentTerm)
                         IN  CopiesIn(g, cm'[n].rv) = CopiesIn(g, cm[n].rv) + 1
          /\ \A h \in BagToSet(cm'[n].rv) :
                (h.pc = "call" /\ CopiesIn(h, cm'[n].rv) > CopiesIn(h, cm[n].rv))
                   => /\ NewRequestVote(h.to, h.term) \in BagToSet(cm[n].rv)
                      /\ RequestVoteArgs(cm'[n], h) =
                            [term |-> h.term,
                             candidateID |-> cm[n].id,
                             lastLogIndex |-> Len(cm[n].log) - 1,
                             lastLogTerm |->
                                IF Len(cm[n].log) = 0 THEN -1
                                ELSE cm[n].log[Len(cm[n].log)].Term]]_vars

\* C22 witness: a candidate whose log holds an entry of term 1 has started
\* the election of term 2 and has a request on its way with last log index
\* 0 and last log term 1.
C22_Witness ==
    \E n \in DOMAIN cm : \E g \in BagToSet(cm[n].rv) :
        /\ cm[n].state = CANDIDATE
        /\ cm[n].currentTerm = 2
        /\ cm[n].votedFor = cm[n].id
        /\ cm[n].votes = 1
        /\ g.pc = "call"
        /\ g.term = 2
        /\ g.lastLogIndex = 0
        /\ g.lastLogTerm = 1

\* C23: in the step in which a replica becomes LEADER, every peer gets
\* nextIndex = lastLogIndex + 1 = len(log) and matchIndex = -1, and the
\* replica's currentTerm and log stay as they were.
C23_LeaderInitialisesPeerIndices ==
    [][\A n \in DOMAIN cm :
          (cm[n].state # LEADER /\ cm'[n].state = LEADER)
             => /\ \A p \in cm'[n].peerIds :
                      /\ cm'[n].nextIndex[p] = lastLogIndex(cm'[n]) + 1
                      /\ cm'[n].nextIndex[p] = Len(cm'[n].log)
                      /\ cm'[n].matchIndex[p] = -1
                /\ cm'[n].currentTerm = cm[n].currentTerm
                /\ cm'[n].log = cm[n].log]_vars

\* C23 witness: a replica with one entry in its log has just become leader
\* of term 2: its leader loop has not sent anything yet.
C23_Witness ==
    \E n \in DOMAIN cm :
        /\ cm[n].state = LEADER
        /\ cm[n].currentTerm = 2
        /\ Len(cm[n].log) = 1
        /\ cm[n].ae = EmptyBag
        /\ NewLeaderLoop \in BagToSet(cm[n].loops)
        /\ \A p \in cm[n].peerIds :
              cm[n].nextIndex[p] = 1 /\ cm[n].matchIndex[p] = -1

\* node c after goroutine g, whose call is in flight, has been answered
\* with success in the term of its request and has handled that reply
SuccessHandled(c, g) ==
    LET reply == [term |-> g.term, success |-> TRUE]
    IN  AppendEntriesReply(AppendEntriesReturned(c, g, reply),
                           [g EXCEPT !.pc = "reply",
                                     !.replyTerm = reply.term,
                                     !.success = reply.success])

\* C24: when a leader still in the term of the request handles a successful
\* AppendEntries reply for a request sent with prevLogIndex = prev and a
\* list entries, it sets matchIndex[peer] = prev + len(entries) and
\* nextIndex[peer] = matchIndex[peer] + 1, and leaves nextIndex and
\* matchIndex of every other peer as they were.
C24_SuccessSetsPeerIndices ==
    [][\A n \in DOMAIN cm :
          \A g \in BagToSet(cm[n].ae) :
             (/\ g.pc = "call"
              /\ cm[n].state = LEADER
              /\ g.term = cm[n].currentTerm
              /\ cm'[n] = SuccessHandled(cm[n], g))
                => /\ cm'[n].matchIndex[g.to] = g.prevLogIndex + Len(g.entries)
                   /\ cm'[n].nextIndex[g.to] = cm'[n].matchIndex[g.to] + 1
                   /\ \A p \in cm[n].peerIds \ {g.to} :
                         /\ cm'[n].nextIndex[p] = cm[n].nextIndex[p]
                         /\ cm'[n].matchIndex[p] = cm[n].matchIndex[p]]_vars

\* C24 witness: a leader with two peers and one entry in its log has
\* handled the success of peer 1 for that entry; peer 2 is where the
\* election left it.
C24_Witness ==
    \E n \in DOMAIN cm :
        /\ cm[n].state = LEADER
        /\ cm[n].peerIds = {1, 2}
        /\ Len(cm[n].log) = 1
        /\ cm[n].matchIndex[1] = 0
        /\ cm[n].nextIndex[1] = 1
        /\ cm[n].matchIndex[2] = -1
        /\ cm[n].nextIndex[2] = 0

C33_CommitScanStaysInLog ==
    [][\A n \in DOMAIN cm : \A g \in BagToSet(cm[n].ae) :
          (/\ g.pc = "call"
           /\ cm[n].exited = "no"
           /\ cm'[n] = SuccessHandled(cm[n], g))
             => cm'[n].exited = "no"]_vars

\* C27: every AppendEntries request that a replica builds for a peer
\* carries prevLogIndex = nextIndex[peer] - 1, prevLogTerm = the term of the
\* log entry at prevLogIndex (-1 when prevLogIndex < 0), entries = the log
\* from nextIndex[peer] on, leaderCommit = commitIndex, and term = the
\* currentTerm of the replica at the moment these fields are read under the
\* lock.
C27_AppendEntriesRequestFields ==
    [][\A n \in DOMAIN cm :
          \A h \in BagToSet(cm'[n].ae) :
             (h.pc = "call" /\ CopiesIn(h, cm'[n].ae) > CopiesIn(h, cm[n].ae))
                => LET args == AppendEntriesArgs(cm'[n], h)
                       next == cm[n].nextIndex[h.to]
                   IN  /\ args.prevLogIndex = next - 1
                       /\ args.prevLogTerm =
                             IF next - 1 >= 0 THEN cm[n].log[next].Term ELSE -1
                       /\ args.entries =
                             [i \in 1..(Len(cm[n].log) - next) |->
                                 cm[n].log[next + i]]
                       /\ args.leaderCommit = cm[n].commitIndex
                       /\ args.leaderId = cm[n].id
                       /\ args.term = cm[n].currentTerm]_vars

\* C28: no goroutine calls a peer while it holds the replica lock: whenever
\* a RequestVote or AppendEntries call is in flight, its sender has read
\* what it needs and released the lock, so the lock is free or held by the
\* election timer, and the sender takes it again only to handle the reply.
C28_NoCallUnderLock ==
    \A n \in DOMAIN cm :
        \A g \in BagToSet(cm[n].rv) \cup BagToSet(cm[n].ae) :
            g.pc = "call" => cm[n].mu \in {"free", "timer"}

\* C28 witness: a RequestVote call and an AppendEntries call of one node
\* are in flight at the same time and the lock is free.
C28_Witness ==
    \E n \in DOMAIN cm :
        /\ cm[n].mu = "free"
        /\ \E g \in BagToSet(cm[n].rv) : g.pc = "call"
        /\ \E h \in BagToSet(cm[n].ae) : h.pc = "call"

\* C30: a replica that is not LEADER when the fields of an AppendEntries
\* request are read never builds a request tagged with its currentTerm:
\* every request of term T is built by a replica that is LEADER in term T,
\* whatever the interleaving of the leader check of the heartbeat loop,
\* SendHeartbeats and a step-down.
C30_OnlyLeadersSendAppendEntries ==
    [][\A n \in DOMAIN cm :
          \A h \in BagToSet(cm'[n].ae) :
             (/\ h.pc = "call"
              /\ CopiesIn(h, cm'[n].ae) > CopiesIn(h, cm[n].ae)
              /\ h.term = cm[n].currentTerm)
                => cm[n].state = LEADER]_vars

\* ============================================= cmdlog.go (unnamed/part_000)

\* applyCommand that treats EditAlbum as an unknown command
applyCommandNoEdit(d, entry) ==
    LET cmd == entry.Command
        a == cmd.Arguments
    IN  IF cmd.Method = "AddAlbum"
        THEN IF Len(a) = 4 THEN AddAlbum(d, a[1], a[2], a[3], a[4]) ELSE d
        ELSE IF cmd.Method = "RemoveAlbum"
        THEN IF Len(a) = 1 THEN RemoveAlbum(d, a[1]).db ELSE d
        ELSE d

\* applyCommand(db, entry): the command of a log entry applied to a store
applyCommand(d, entry) ==
    LET cmd == entry.Command
        a == cmd.Arguments
    IN  IF cmd.Method = "AddAlbum"
        THEN IF Len(a) = 4 THEN AddAlbum(d, a[1], a[2], a[3], a[4]) ELSE d
        ELSE IF cmd.Method = "EditAlbum"
        THEN IF Len(a) = 5 THEN EditAlbum(d, a[1], a[2], a[3], a[4], a[5]).db
             ELSE d
        ELSE IF cmd.Method = "RemoveAlbum"
        THEN IF Len(a) = 1 THEN RemoveAlbum(d, a[1]).db ELSE d
        ELSE d

\* Reconstruct(db, log) of cmdlog.go: the loop over log.Entries with the
\* three commands handled in the loop body
RECURSIVE Reconstruct(_, _)
Reconstruct(d, entries) ==
    IF entries = <<>> THEN d
    ELSE LET cmd == Head(entries).Command
             a == cmd.Arguments
             d1 == IF cmd.Method = "AddAlbum"
                   THEN (IF Len(a) = 4
                         THEN AddAlbum(d, a[1], a[2], a[3], a[4]) ELSE d)
                   ELSE IF cmd.Method = "EditAlbum"
                   THEN (IF Len(a) = 5
                         THEN EditAlbum(d, a[1], a[2], a[3], a[4], a[5]).db
                         ELSE d)
                   ELSE IF cmd.Method = "RemoveAlbum"
                   THEN (IF Len(a) = 1 THEN RemoveAlbum(d, a[1]).db ELSE d)
                   ELSE d
         IN  Reconstruct(d1, Tail(entries))

\* CommandLog.AppendEntry
AppendEntry(entries, entry) == Append(entries, entry)

\* ---- a command log that grows while its entries are applied to a store

\* album ids named by logged commands: a hardcoded album, the first added
\* album, and a string that is not a number
ReplayIds == {Itoa(0), Itoa(Len(hardcodedAlbums)), <<"x">>}

\* the commands of the log: well-formed ones, ones with a wrong number of
\* arguments, and one of an unknown method
ReplayCommands ==
    {[Method |-> "AddAlbum", Arguments |-> <<"x", "a", "u", "y">>],
     [Method |-> "AddAlbum", Arguments |-> <<"x", "a", "u">>],
     [Method |-> "GetAlbum", Arguments |-> <<Itoa(0)>>]}
    \cup {[Method |-> "EditAlbum", Arguments |-> <<id, "t", "", "", "z">>] :
             id \in ReplayIds}
    \cup {[Method |-> "EditAlbum", Arguments |-> <<id, "t">>] : id \in {Itoa(0)}}
    \cup {[Method |-> "RemoveAlbum", Arguments |-> <<id>>] : id \in ReplayIds}
    \cup {[Method |-> "RemoveAlbum", Arguments |-> <<>>]}

\* an entry is appended to the log and applied to the store
ApplyEntry ==
    /\ Len(cmdLog) < MaxReplay
    /\ \E command \in ReplayCommands :
          LET entry == [Command |-> command, Term |-> 1]
          IN  /\ cmdLog' = AppendEntry(cmdLog, entry)
              /\ db' = applyCommand(db, entry)
    /\ ret' = [NoRet EXCEPT !.op = "applyCommand"]
    /\ UNCHANGED <<nEdits, assigned, nodeVars>>

NextReplay == ApplyEntry

SpecReplay == InitStore /\ [][NextReplay]_vars

\* C13: replay determinism: after every prefix of the log, the store that
\* received the entries one by one through applyCommand equals (same
\* id-to-album mapping, same CurrID) the store that Reconstruct builds
\* from a freshly created store and the whole log so far.
C13_ReplayDeterminism == db = Reconstruct(NewAlbumDB, cmdLog)

\* C13 witness: a log of an add, an edit of the added album and a removal
\* of a hardcoded album has been applied.
C13_Witness ==
    /\ Len(cmdLog) = 3
    /\ cmdLog[1].Command.Method = "AddAlbum"
    /\ cmdLog[2].Command.Method = "EditAlbum"
    /\ cmdLog[3].Command.Method = "RemoveAlbum"
    /\ db.CurrID = Len(hardcodedAlbums) + 1
    /\ 0 \notin DOMAIN db.Data
    /\ Len(hardcodedAlbums) \in DOMAIN db.Data
    /\ db.Data[Len(hardcodedAlbums)].Title = "t"

\* ============================================ backend.go (unnamed/part_004)

\* the zero DataMessage
DataMessage == [Method |-> "", Index |-> <<>>, AlbumArray |-> <<>>,
                Status |-> FALSE]

\* NewBackendServer: a fresh store; out holds the replies written so far,
\* req the last request read from the client connection
NewBackendServer ==
    [DB |-> NewAlbumDB, req |-> DataMessage, out |-> <<>>, nReqs |-> 0,
     exited |-> "no"]

\* WriteClientMessage: gob cannot encode a nil element of AlbumArray, and
\* the error is turned into a panic
WriteClientMessage(s, msg) ==
    IF s.exited # "no" THEN s
    ELSE IF \E i \in 1..Len(msg.AlbumArray) : msg.AlbumArray[i] = NilAlbum
    THEN [s EXCEPT !.exited = "panic"]
    ELSE [s EXCEPT !.out = Append(@, msg)]

handleGetAllAlbums(s) ==
    WriteClientMessage(s, [DataMessage EXCEPT !.Method = "GetAllAlbums",
                                              !.AlbumArray = GetAllAlbums(s.DB),
                                              !.Status = TRUE])

\* handleGetAlbum: after the reply for an error the function goes on to
\* write the reply for a success
handleGetAlbum(s, request) ==
    LET r == GetAlbum(s.DB, request.Index)
        s1 == IF r.err # "nil" THEN WriteClientMessage(s, DataMessage) ELSE s
    IN  WriteClientMessage(s1, [DataMessage EXCEPT !.Method = "GetAlbum",
                                                   !.AlbumArray = <<r.album>>,
                                                   !.Status = TRUE])

\* handleAddAlbum: request.AlbumArray[0] of an empty array panics
handleAddAlbum(s, request) ==
    IF request.AlbumArray = <<>> THEN [s EXCEPT !.exited = "panic"]
    ELSE LET album == request.AlbumArray[1]
             s1 == [s EXCEPT !.DB = AddAlbum(@, album.Title, album.Artist,
                                             album.URL, album.Year)]
         IN  WriteClientMessage(s1, [DataMessage EXCEPT !.Status = TRUE])

handleEditAlbum(s, request) ==
    IF request.AlbumArray = <<>> THEN [s EXCEPT !.exited = "panic"]
    ELSE LET album == request.AlbumArray[1]
             r == EditAlbum(s.DB, request.Index, album.Title, album.Artist,
                            album.URL, album.Year)
             s1 == [s EXCEPT !.DB = r.db]
         IN  WriteClientMessage(s1, [DataMessage EXCEPT !.Status = (r.err = "nil")])

\* handleDeleteAlbum that reports success whatever RemoveAlbum returned
handleDeleteAlbumAlwaysOk(s, request) ==
    LET r == RemoveAlbum(s.DB, request.Index)
        s1 == [s EXCEPT !.DB = r.db]
    IN  WriteClientMessage(s1, [DataMessage EXCEPT !.Status = TRUE])

handleDeleteAlbum(s, request) ==
    LET r == RemoveAlbum(s.DB, request.Index)
        s1 == [s EXCEPT !.DB = r.db]
    IN  WriteClientMessage(s1, [DataMessage EXCEPT !.Status = (r.err = "nil")])

\* HandleClientRequest: the switch on request.Method; an unknown method
\* ends the process
HandleClientRequest(s, request) ==
    CASE request.Method = "GetAllAlbums" -> handleGetAllAlbums(s)
      [] request.Method = "GetAlbum"     -> handleGetAlbum(s, request)
      [] request.Method = "AddAlbum"     -> handleAddAlbum(s, request)
      [] request.Method = "EditAlbum"    -> handleEditAlbum(s, request)
      [] request.Method = "DeleteAlbum"  -> handleDeleteAlbum(s, request)
      [] OTHER                           -> [s EXCEPT !.exited = "exit"]

\* ---- one replica: its server handles client requests while its consensus
\* ---- module goes through elections

\* album ids clients ask for: a hardcoded album, an id never assigned, a
\* string that is not a number, and a negative number
RequestIds == {Itoa(0), Itoa(Len(hardcodedAlbums) + MaxRequests), <<"x">>,
               Itoa(-1)}

\* the requests that clients send; the last one names no method of the server
Requests ==
    LET album == Album(<<>>, "x", "a", "u", "y")
    IN  {[DataMessage EXCEPT !.Method = "GetAllAlbums"],
         [DataMessage EXCEPT !.Method = "AddAlbum", !.AlbumArray = <<album>>],
         [DataMessage EXCEPT !.Method = "Status"]}
        \cup {[DataMessage EXCEPT !.Method = "GetAlbum", !.Index = id] :
                 id \in RequestIds}
        \cup {[DataMessage EXCEPT !.Method = "DeleteAlbum", !.Index = id] :
                 id \in RequestIds}
        \cup {[DataMessage EXCEPT !.Method = "EditAlbum", !.Index = id,
                                  !.AlbumArray = <<album>>] : id \in RequestIds}

\* HandleClientConn: one message is read from the connection and handled;
\* out collects the replies to this request
ClientRequest(n) ==
    /\ srv[n].exited = "no"
    /\ srv[n].nReqs < MaxRequests
    /\ \E request \in Requests :
          srv' = [srv EXCEPT ![n] = HandleClientRequest(
                     [srv[n] EXCEPT !.req = request, !.out = <<>>,
                                    !.nReqs = @ + 1], request)]
    /\ UNCHANGED <<storeVars, cm, fe>>

\* replica 0 of a cluster of two, its peer connected
InitGateway ==
    /\ InitDB
    /\ cm = [n \in {0} |-> ConnectAll(NewConsensusModule(0, {1}), {1})]
    /\ srv = [n \in {0} |-> NewBackendServer]
    /\ fe = NewFrontendServer

NextGateway ==
    \/ ClientRequest(0)
    \/ LeaderElect(0)
    \/ StepRequestVotePrepare(0)
    \/ RequestVoteAnswered(0)
    \/ StepRequestVoteFailed(0)

SpecGateway == InitGateway /\ [][NextGateway]_vars

\* ---------------------------------------------- properties of the gateway

WriteMethods == {"AddAlbum", "EditAlbum", "DeleteAlbum"}

ReadMethods == {"GetAlbum", "GetAllAlbums"}

\* the server of replica n handles a request in this step
Handles(n) == srv'[n].nReqs = srv[n].nReqs + 1

\* the one reply to the request is a refusal that carries no data
AnsweredNotLeader(s) ==
    /\ s.exited = "no"
    /\ Len(s.out) = 1
    /\ ~s.out[1].Status
    /\ s.out[1].AlbumArray = <<>>

\* replica c is leader and has applied an entry of its current term
MayServeReads(c) ==
    /\ c.state = LEADER
    /\ \E i \in 0..c.lastApplied : LogAt(c, i).Term = c.currentTerm

\* C6: state-machine safety: the store of a replica changes only in a step
\* that applies the next log entry (index lastApplied + 1, committed) to
\* it, so replicas that applied index i applied the same command; no
\* handler of the client gateway changes the store in any other way.
C6_StoreChangesOnlyByApplying ==
    [][\A n \in DOMAIN srv :
          srv'[n].DB # srv[n].DB
             => /\ cm'[n].lastApplied = cm[n].lastApplied + 1
                /\ cm'[n].lastApplied <= cm'[n].commitIndex
                /\ cm'[n].lastApplied <= lastLogIndex(cm'[n])
                /\ srv'[n].DB = applyCommand(srv[n].DB,
                                             LogAt(cm'[n], cm'[n].lastApplied))]_vars

\* C7: a write request handled by a replica that is not the leader is
\* answered with NotLeader, and the replica's store (albums and CurrID)
\* and log stay as they were.
C7_WritesRefusedByNonLeader ==
    [][\A n \in DOMAIN srv :
          (Handles(n) /\ srv'[n].req.Method \in WriteMethods
                      /\ cm[n].state # LEADER)
             => /\ AnsweredNotLeader(srv'[n])
                /\ srv'[n].DB = srv[n].DB
                /\ cm'[n].log = cm[n].log]_vars

\* C8: a read request is answered with store contents only by a replica
\* that is leader and has applied an entry of its current term; any other
\* replica answers NotLeader.
C8_ReadsServedByLeaderOnly ==
    [][\A n \in DOMAIN srv :
          (Handles(n) /\ srv'[n].req.Method \in ReadMethods
                      /\ ~MayServeReads(cm[n]))
             => AnsweredNotLeader(srv'[n])]_vars

\* C34: the client gateway sends exactly one reply per request on a
\* connection, whatever the method and the outcome (GetAlbum of a missing or
\* malformed id included): the handler writes one reply and returns, so the
\* server goes on to the next request of the connection and the k-th reply
\* read by the frontend is the reply to its k-th request.
C34_OneReplyPerRequest ==
    [][\A n \in DOMAIN srv :
          (Handles(n) /\ srv'[n].req.Method \in ReadMethods \cup WriteMethods)
             => /\ Len(srv'[n].out) = 1
                /\ srv'[n].exited = "no"]_vars

\* C12: a DeleteAlbum request for an existing id removes exactly that
\* mapping (other albums and CurrID as before) and is answered Status=true;
\* a DeleteAlbum or EditAlbum request whose id is absent, negative or not a
\* number leaves the whole store unchanged and is answered by one reply
\* with Status=false.
C12_RemoveFrameAndErrors ==
    [][\A n \in DOMAIN srv :
          (Handles(n) /\ srv'[n].req.Method \in {"DeleteAlbum", "EditAlbum"})
             => LET s == srv[n]
                    t == srv'[n]
                    id == t.req.Index
                IN  /\ t.exited = "no"
                    /\ Len(t.out) = 1
                    /\ IF Existing(s.DB, id)
                       THEN /\ t.out[1].Status
                            /\ t.DB.CurrID = s.DB.CurrID
                            /\ t.req.Method = "DeleteAlbum" =>
                                  t.DB.Data = MapDelete(s.DB.Data, Atoi(id).val)
                       ELSE /\ ~t.out[1].Status
                            /\ t.DB = s.DB
                            /\ RemoveAlbum(s.DB, id).err # "nil"
                            /\ EditAlbum(s.DB, id, "x", "", "", "").err # "nil"]_vars

\* C12 witness: album 0 was deleted by the first request and the second
\* DeleteAlbum request for the same id has been answered Status=false.
C12_Witness ==
    /\ srv # <<>>
    /\ srv[0].nReqs = 2
    /\ srv[0].req.Method = "DeleteAlbum"
    /\ srv[0].req.Index = Itoa(0)
    /\ 0 \notin DOMAIN srv[0].DB.Data
    /\ 1 \in DOMAIN srv[0].DB.Data
    /\ srv[0].DB.CurrID = Len(hardcodedAlbums)
    /\ Len(srv[0].out) = 1
    /\ ~srv[0].out[1].Status

\* C14: on a freshly started replica that is leader, the first AddAlbum
\* request is answered by one reply with Status=true and Index "0", and
\* afterwards GetAllAlbums on every replica's store is the list of exactly
\* that one album, whose Id is "0".
C14_FirstAddGetsIndexZero ==
    [][\A n \in DOMAIN srv :
          (/\ Handles(n)
           /\ srv'[n].req.Method = "AddAlbum"
           /\ cm[n].state = LEADER
           /\ srv[n].DB = NewAlbumDB)
             => /\ srv'[n].exited = "no"
                /\ Len(srv'[n].out) = 1
                /\ srv'[n].out[1].Status
                /\ srv'[n].out[1].Index = Itoa(0)
                /\ \A m \in DOMAIN srv :
                      GetAllAlbums(srv'[m].DB) =
                         <<Album(Itoa(0), "x", "a", "u", "y")>>]_vars

\* ======================================================== frontend.go

\* the backend a route talks to serves the request: HandleClientConn reads
\* it and HandleClientRequest handles it
Serve(s, request) ==
    HandleClientRequest([s EXCEPT !.req = request, !.out = <<>>,
                                  !.nReqs = @ + 1], request)

\* ConnectToBackend(address): a failed resolve or dial ends the process
ConnectToBackend(f, address, dialled) ==
    IF dialled THEN [f EXCEPT !.Conn = address]
    ELSE [f EXCEPT !.exited = "exit"]

\* FindLeader: ConnectToBackend(PickRandom()); curr is the endpoint picked
FindLeader(f, curr, dialled) == ConnectToBackend(f, curr, dialled)

\* the response a route gets from WriteAndReadMessage; the three POST
\* routes (fatal) call os.Exit(1) / log.Fatal when its Status is false
\* (lines 174-177, 200-203, 239-242)
RouteDone(f, route, response, fatal) ==
    [f EXCEPT !.route = route, !.got = TRUE, !.response = response,
              !.nRoutes = @ + 1,
              !.exited = IF fatal /\ ~response.Status THEN "exit" ELSE @]

\* WriteMessage or ReadMessage panics (the backend process is gone, or it
\* wrote nothing); the panic ends the route, not the process
RoutePanics(f, route) ==
    [f EXCEPT !.route = route, !.got = FALSE, !.nRoutes = @ + 1]

\* album ids in the routes: a hardcoded album and an id never assigned
RouteIds == {Itoa(0), Itoa(Len(hardcodedAlbums) + MaxRoutes)}

\* Start, line 44: srv.ConnectToBackend(srv.PickRandom())
FrontendStart ==
    /\ fe.exited = "no"
    /\ fe.Conn = NoConn
    /\ \E address \in fe.Endpoints, dialled \in BOOLEAN :
          fe' = ConnectToBackend(fe, address, dialled)
    /\ UNCHANGED <<storeVars, cm, srv>>

\* the frontend is connected and handles a route
Routing ==
    /\ fe.exited = "no"
    /\ fe.Conn # NoConn
    /\ fe.nRoutes < MaxRoutes

\* WriteAndReadMessage(request) in a route, and what the route does with
\* the response
WriteAndReadMessage(route, request, fatal) ==
    /\ IF srv[fe.Conn].exited # "no"
       THEN /\ fe' = RoutePanics(fe, route)
            /\ srv' = srv
       ELSE LET s == Serve(srv[fe.Conn], request)
            IN  /\ srv' = [srv EXCEPT ![fe.Conn] = s]
                /\ fe' = IF s.out = <<>> THEN RoutePanics(fe, route)
                         ELSE RouteDone(fe, route, s.out[1], fatal)
    /\ UNCHANGED <<storeVars, cm>>

\* GET /: GetAllAlbums, the response's Status is not looked at
ShowHomePage ==
    /\ Routing
    /\ WriteAndReadMessage("ShowHomePage",
                           [DataMessage EXCEPT !.Method = "GetAllAlbums"], FALSE)

\* POST /add
HandleAddAlbumRoute ==
    /\ Routing
    /\ WriteAndReadMessage("HandleAddAlbumRoute",
          [DataMessage EXCEPT !.Method = "AddAlbum",
                              !.AlbumArray = <<Album(<<>>, "x", "a", "u", "y")>>],
          TRUE)

\* POST /delete/{id}
HandleDeleteAlbumRoute ==
    /\ Routing
    /\ \E id \in RouteIds :
          WriteAndReadMessage("HandleDeleteAlbumRoute",
             [DataMessage EXCEPT !.Method = "DeleteAlbum", !.Index = id], TRUE)

\* POST /edit/{id}
HandleEditAlbumRoute ==
    /\ Routing
    /\ \E id \in RouteIds :
          WriteAndReadMessage("HandleEditAlbumRoute",
             [DataMessage EXCEPT !.Method = "EditAlbum", !.Index = id,
                                 !.AlbumArray = <<Album(<<>>, "x", "", "", "")>>],
             TRUE)

\* a frontend not yet started and the backends it was given
InitFrontend ==
    /\ InitDB
    /\ cm = <<>>
    /\ srv = [n \in 0..(MaxEndpoints - 1) |-> NewBackendServer]
    /\ fe = NewFrontendServer

NextFrontend ==
    \/ FrontendStart
    \/ ShowHomePage
    \/ HandleAddAlbumRoute
    \/ HandleDeleteAlbumRoute
    \/ HandleEditAlbumRoute

SpecFrontend == InitFrontend /\ [][NextFrontend]_vars

\* C19: a frontend whose request is answered unsuccessfully (Status=false,
\* as a NotLeader reply is) keeps running, so that it can reconnect and
\* retry the request; it does not terminate on the first such reply.
C19_FrontendSurvivesRefusal ==
    [][(/\ fe.exited = "no"
        /\ fe'.nRoutes = fe.nRoutes + 1
        /\ fe'.got
        /\ ~fe'.response.Status)
          => fe'.exited = "no"]_vars

\* ============ the receiving side of RequestVote (design document, 4.3) ====

\* any -> FOLLOWER on a higher term: the term is adopted, the vote cleared,
\* the election timer reset
StepDown(c, term) ==
    [c EXCEPT !.state = FOLLOWER, !.currentTerm = term, !.votedFor = None,
              !.elapsed = 0]

\* the candidate's log is at least as up-to-date as the voter's
UpToDate(c, args) ==
    \/ args.lastLogTerm > lastLogTerm(c)
    \/ /\ args.lastLogTerm = lastLogTerm(c)
       /\ args.lastLogIndex >= lastLogIndex(c)

\* RequestVote at the voter c: the voter afterwards and its reply
HandleRequestVote(c, args) ==
    IF args.term < c.currentTerm
    THEN [c |-> c, reply |-> [term |-> c.currentTerm, voteGranted |-> FALSE]]
    ELSE LET c1 == IF args.term > c.currentTerm THEN StepDown(c, args.term)
                   ELSE c
             grant == /\ c1.votedFor \in {None, args.candidateID}
                      /\ UpToDate(c1, args)
             c2 == IF grant
                   THEN [c1 EXCEPT !.votedFor = args.candidateID, !.elapsed = 0]
                   ELSE c1
         IN  [c |-> c2,
              reply |-> [term |-> c2.currentTerm, voteGranted |-> grant]]

\* ---- a cluster in which every node runs the election process ----

Nodes == 0..(ClusterSize - 1)

\* DoRPC(peer, "RequestVote", ...) of node n is served by the peer and
\* returns nil with the peer's reply
DeliverRequestVote(n) ==
    /\ CanLock(n)
    /\ \E g \in BagToSet(cm[n].rv) :
          /\ g.pc = "call"
          /\ HasClient(cm[n], g.to)
          /\ CanLock(g.to)
          /\ LET r == HandleRequestVote(cm[g.to], RequestVoteArgs(cm[n], g))
             IN  cm' = [cm EXCEPT ![g.to] = r.c,
                                  ![n] = RequestVoteReturned(cm[n], g, r.reply)]
    /\ UNCHANGED <<storeVars, srv, fe>>

\* an election on one of the nodes that stand as candidates, while its
\* term is within the bound
ClusterElect(n) ==
    /\ n < MaxCandidates
    /\ cm[n].currentTerm < MaxClusterTerm
    /\ Elect(n)

\* every node a fresh replica, connected to every other node
InitCluster ==
    /\ InitDB
    /\ cm = [n \in Nodes |-> ConnectAll(NewConsensusModule(n, Nodes \ {n}),
                                        Nodes \ {n})]
    /\ srv = <<>>
    /\ fe = NewFrontendServer

NextCluster ==
    \E n \in Nodes :
        \/ ClusterElect(n)
        \/ StepRequestVotePrepare(n)
        \/ DeliverRequestVote(n)
        \/ StepRequestVoteFailed(n)
        \/ StepRequestVoteReply(n)

\* elections in a cluster; timers and leader loops are started but not
\* followed
SpecCluster == InitCluster /\ [][NextCluster]_vars

\* C1: election safety: in every reachable state of the cluster, two
\* different replicas are never both LEADER with the same currentTerm,
\* whatever the order of elections, vote replies (also delayed ones from
\* earlier elections) and step-downs.
C1_OneLeaderPerTerm ==
    \A m, n \in DOMAIN cm :
        (m # n /\ cm[m].state = LEADER /\ cm[n].state = LEADER)
           => cm[m].currentTerm # cm[n].currentTerm

\* ========= the receiving side of AppendEntries (design document, 4.3) =====

\* step 5 at the follower: entries[k] goes to index prev + 1 + k; an entry
\* whose term conflicts truncates the log from its index, an entry past the
\* end is appended
RECURSIVE StoreEntries(_, _, _)
StoreEntries(lg, i, entries) ==
    IF entries = <<>> THEN lg
    ELSE LET e == Head(entries)
             cut == IF i <= Len(lg) - 1 /\ lg[i + 1].Term # e.Term
                    THEN SubSeq(lg, 1, i)
                    ELSE lg
             put == IF i > Len(cut) - 1 THEN Append(cut, e) ELSE cut
         IN  StoreEntries(put, i + 1, Tail(entries))

\* AppendEntries at the follower c: the follower afterwards and its reply
HandleAppendEntries(c, args) ==
    IF args.term < c.currentTerm
    THEN [c |-> c, reply |-> [term |-> c.currentTerm, success |-> FALSE]]
    ELSE LET c1 == IF args.term > c.currentTerm THEN StepDown(c, args.term)
                   ELSE IF c.state = CANDIDATE
                        THEN [c EXCEPT !.state = FOLLOWER]
                        ELSE c
             c2 == [c1 EXCEPT !.elapsed = 0, !.leader = ToString(args.leaderId)]
             bad == /\ args.prevLogIndex >= 0
                    /\ \/ args.prevLogIndex > lastLogIndex(c2)
                       \/ LogAt(c2, args.prevLogIndex).Term # args.prevLogTerm
             c3 == [c2 EXCEPT !.log = StoreEntries(@, args.prevLogIndex + 1,
                                                   args.entries)]
             c4 == IF args.leaderCommit > c3.commitIndex
                   THEN [c3 EXCEPT !.commitIndex =
                            IF args.leaderCommit < lastLogIndex(c3)
                            THEN args.leaderCommit ELSE lastLogIndex(c3)]
                   ELSE c3
         IN  IF bad
             THEN [c |-> c2, reply |-> [term |-> c2.currentTerm, success |-> FALSE]]
             ELSE [c |-> c4, reply |-> [term |-> c4.currentTerm, success |-> TRUE]]

\* ---- a cluster in which leaders take commands and replicate their logs ----

\* DoRPC(peer, "AppendEntries", ...) of node n is served by the peer and
\* returns nil; node n then handles the reply under its lock
DeliverAppendEntries(n) ==
    /\ CanLock(n)
    /\ \E g \in BagToSet(cm[n].ae) :
          /\ g.pc = "call"
          /\ HasClient(cm[n], g.to)
          /\ CanLock(g.to)
          /\ LET r == HandleAppendEntries(cm[g.to], AppendEntriesArgs(cm[n], g))
                 h == [g EXCEPT !.pc = "reply", !.replyTerm = r.reply.term,
                                !.success = r.reply.success]
             IN  cm' = [cm EXCEPT ![g.to] = r.c,
                                  ![n] = AppendEntriesReply(
                                     AppendEntriesReturned(cm[n], g, r.reply), h)]
    /\ UNCHANGED <<storeVars, srv, fe>>

ReplicaNodes == 0..(ReplicaSize - 1)

\* commands that clients submit to node n when it is leader: the clients of
\* node 0 add an album, those of the other nodes remove one
ClusterCommands(n) ==
    IF n = 0
    THEN {[Method |-> "AddAlbum", Arguments |-> <<"x", "a", "u", "y">>]}
    ELSE {[Method |-> "RemoveAlbum", Arguments |-> <<Itoa(0)>>]}

\* a client write accepted by node n while it is leader
ClusterSubmit(n) ==
    /\ CanLock(n)
    /\ cm[n].state = LEADER
    /\ Len(cm[n].log) < MaxReplicaLog
    /\ \E command \in ClusterCommands(n) :
          cm' = [cm EXCEPT ![n] = Submit(cm[n], command)]
    /\ UNCHANGED <<storeVars, srv, fe>>

\* an election on a node of the cluster, while its term and its RequestVote
\* calls in flight are within the bounds
ReplicaElect(n) ==
    /\ cm[n].currentTerm < MaxReplicaTerm
    /\ BagCardinality(cm[n].rv) + Cardinality(cm[n].peerIds) <= MaxReplicaCalls
    /\ Elect(n)

\* every node a fresh replica, connected to every other node
InitReplica ==
    /\ InitDB
    /\ cm = [n \in ReplicaNodes |->
                ConnectAll(NewConsensusModule(n, ReplicaNodes \ {n}),
                           ReplicaNodes \ {n})]
    /\ srv = <<>>
    /\ fe = NewFrontendServer

NextReplica ==
    \E n \in ReplicaNodes :
        \/ ReplicaElect(n)
        \/ StepRequestVotePrepare(n)
        \/ DeliverRequestVote(n)
        \/ StepRequestVoteFailed(n)
        \/ StepRequestVoteReply(n)
        \/ ClusterSubmit(n)
        \/ Heartbeat(n)
        \/ StepAppendEntriesPrepare(n)
        \/ DeliverAppendEntries(n)
        \/ StepAppendEntriesFailed(n)

\* elections, client writes and log replication in a cluster; every leader
\* loop is followed through its first round of heartbeats
SpecReplica == InitReplica /\ [][NextReplica]_vars

\* C17: log matching: in every reachable state, if two replicas hold an
\* entry at the same index i with equal terms, their logs are identical at
\* every index <= i.
C17_LogMatching ==
    \A m, n \in DOMAIN cm :
        \A i \in 0..(Len(cm[m].log) - 1) :
            (i < Len(cm[n].log) /\ LogAt(cm[m], i).Term = LogAt(cm[n], i).Term)
               => \A j \in 0..i : LogAt(cm[m], j) = LogAt(cm[n], j)


\* ---- a cluster of three in which one node only votes and follows ----

\* the node that stands in no election and takes no command: it is the
\* one peer the others have a client for
Voter == 1

\* an election on a node other than the voter, while its term and its
\* RequestVote calls in flight are within the bounds
CommitElect(n) ==
    /\ n # Voter
    /\ cm[n].currentTerm < MaxCommitTerm
    /\ BagCardinality(cm[n].rv) + Cardinality(cm[n].peerIds) <= MaxCommitCalls
    /\ Elect(n)

\* a client write accepted by node n while it is leader
CommitSubmit(n) ==
    /\ CanLock(n)
    /\ cm[n].state = LEADER
    /\ Len(cm[n].log) < MaxCommitLog
    /\ \E command \in ClusterCommands(n) :
          cm' = [cm EXCEPT ![n] = Submit(cm[n], command)]
    /\ UNCHANGED <<storeVars, srv, fe>>

\* prepareRequestVoteForPeer for the voter takes the lock; the goroutines
\* for the other peers have not been scheduled yet
VoterRequestVotePrepare(n) ==
    /\ CanLock(n)
    /\ \E g \in BagToSet(cm[n].rv) :
          /\ g.pc = "prepare"
          /\ g.to = Voter
          /\ cm' = [cm EXCEPT ![n] = RequestVotePrepare(cm[n], g)]
    /\ UNCHANGED <<storeVars, srv, fe>>

\* prepareAppendEntriesForPeer for the voter takes the lock; the
\* goroutines for the other peers have not been scheduled yet
VoterAppendEntriesPrepare(n) ==
    /\ CanLock(n)
    /\ \E g \in BagToSet(cm[n].ae) :
          /\ g.pc = "prepare"
          /\ g.to = Voter
          /\ cm' = [cm EXCEPT ![n] = AppendEntriesPrepare(cm[n], g)]
    /\ UNCHANGED <<storeVars, srv, fe>>

\* every node a fresh replica of a cluster of ClusterSize; the nodes other
\* than the voter have connected to the voter only
InitCommit ==
    /\ InitDB
    /\ cm = [n \in Nodes |->
                IF n = Voter THEN NewConsensusModule(n, Nodes \ {n})
                ELSE ConnectToPeer(NewConsensusModule(n, Nodes \ {n}), Voter)]
    /\ srv = <<>>
    /\ fe = NewFrontendServer

NextCommit ==
    \E n \in Nodes :
        \/ CommitElect(n)
        \/ VoterRequestVotePrepare(n)
        \/ DeliverRequestVote(n)
        \/ StepRequestVoteReply(n)
        \/ CommitSubmit(n)
        \/ Heartbeat(n)
        \/ VoterAppendEntriesPrepare(n)
        \/ DeliverAppendEntries(n)

\* elections, client writes, replication and commitment in a cluster of
\* three; every leader loop is followed through its first round of
\* heartbeats
SpecCommit == InitCommit /\ [][NextCommit]_vars

\* C26: whenever a leader changes commitIndex to N, log[N].Term is its
\* currentTerm and the replicas with matchIndex >= N, the leader counted,
\* are a strict majority of the cluster (2 * count > peers + 1); and an
\* entry at an index that some replica has committed never changes on any
\* replica.
C26_CommitOnlyCurrentTermAtMajority ==
    [][/\ \A n \in DOMAIN cm :
             (cm[n].state = LEADER /\ cm'[n].commitIndex # cm[n].commitIndex)
                => LET N == cm'[n].commitIndex
                   IN  /\ N \in 0..(Len(cm'[n].log) - 1)
                       /\ LogAt(cm'[n], N).Term = cm'[n].currentTerm
                       /\ 2 * (1 + Cardinality({p \in cm'[n].peerIds :
                                                  cm'[n].matchIndex[p] >= N}))
                             > Cardinality(cm'[n].peerIds) + 1
       /\ \A m, n \in DOMAIN cm :
             \A i \in 0..cm[m].commitIndex :
                i < Len(cm[n].log)
                   => /\ i < Len(cm'[n].log)
                      /\ LogAt(cm'[n], i) = LogAt(cm[n], i)]_vars

====
